---- MODULE Spec2Model ----
(***************************************************************************)
(* sourcegraph/backport: the run of the action (src/src/index.ts) and the  *)
(* backport orchestration (src/src/backport.ts) as a state machine.        *)
(*                                                                         *)
(* A label name is a sequence of space-separated tokens.  A label pattern  *)
(* is a regular expression anchored at the start of the label that matches *)
(* a prefix token and captures the token after it, if any, in a group; it  *)
(* is given by its prefix token and the name of that group ("none" when    *)
(* the group is unnamed, so that the pattern has no named group at all),   *)
(* and by whether the prefix must be the whole first token of the label or *)
(* only its beginning.                                                     *)
(* Every outbound command or request is one step whose outcome (success or *)
(* failure) is chosen by the environment, and is appended to `calls`.      *)
(***************************************************************************)
EXTENDS Integers, Sequences, FiniteSets, TLC

VARIABLES
    inputs,      \* the action's inputs: templates, label_pattern, github_token
    payload,     \* context.payload, the triggering event
    pc,          \* position of the run
    baseBranches,\* the routed list of base branches
    idx,         \* index in baseBranches of the target being processed
    target,      \* base, head and labels of the target being processed
    number,      \* number of the pull request created for the current target
    error,       \* message of the error caught at the target boundary
    createdPullRequestBaseBranchToNumber, \* result map, in key order
    workingCopy, \* the local clone
    warned,      \* the merge-method warning was emitted
    calls,       \* every command and request issued so far, in order
    outcome      \* what run() reported to the invoking environment

vars == <<inputs, payload, pc, baseBranches, idx, target, number, error,
          createdPullRequestBaseBranchToNumber, workingCopy, warned, calls,
          outcome>>

----------------------------------------------------------------------------
(* Bounds *)

\* largest number of labels on the triggering pull request
MaxLabels == 3

\* largest length of a pull request body whose stripping is checked
MaxBodyLen == 8

----------------------------------------------------------------------------
(* Values *)

Undefined == "<undefined>"

\* the messages of the errors thrown by backport and getBaseBranchFromLabel
SecurityError == "For security reasons, this action should only run on merged PRs."

ConfigurationError == "matched but missed a base named capturing group"

\* the messages of the errors thrown in run before backport is called
RunErrors ==
    { "template syntax error", "Invalid regular expression",
      "Input required and not supplied: github_token",
      "Unsupported event action", "Unsupported pull request event action" }

\* label names the pull request may carry
LabelNames ==
    { <<"backport", "5.3">>, <<"backport", "7">>, <<"backport", "5.3", "urgent">>,
      <<"backport">>, <<"team/x">> }

\* label patterns that compile: prefix "backport" as a whole token with the
\* capture group named base, named otherwise, or unnamed, and prefix
\* "backport" as the beginning of a token with the capture group named base
LabelRegExps ==
    { [prefix |-> "backport", whole |-> TRUE, group |-> g] :
         g \in {"base", "branch", "none"} }
      \cup { [prefix |-> "backport", whole |-> FALSE, group |-> "base"] }

\* the tokens that follow a prefix token in a label name
BaseNames == { label[2] : label \in { l \in LabelNames : Len(l) >= 2 } }

\* the tokens of the label names of a run that begin with "backport" without
\* being it: the labels the action generates
BeginWithBackport ==
    { "backports" } \cup { "backported-to-" \o base : base \in BaseNames }

\* the token begins with the prefix
BeginsWith(token, prefix) ==
    token = prefix \/ (prefix = "backport" /\ token \in BeginWithBackport)

\* sequences without repetition of at most n elements of S
RECURSIVE DistinctSeqs(_, _)
DistinctSeqs(S, n) ==
    IF n = 0 THEN { <<>> }
    ELSE LET shorter == DistinctSeqs(S, n - 1)
         IN  shorter \cup
             { t \in { Append(s, e) : s \in shorter, e \in S } :
                 \A i, j \in 1..Len(t) : i < j => t[i] # t[j] }

Range(s) == { s[i] : i \in 1..Len(s) }

NoTarget == [base |-> "", head |-> "", labels |-> <<>>, body |-> <<>>]

----------------------------------------------------------------------------
(* Label routing *)

\* labelRegExp.exec(label): matched, whether the match has a groups object,
\* and the value of groups.base
exec(labelRegExp, label) ==
    IF /\ Len(label) >= 1
       /\ IF labelRegExp.whole
          THEN label[1] = labelRegExp.prefix
          ELSE BeginsWith(label[1], labelRegExp.prefix)
    THEN [matched |-> TRUE,
          groups  |-> labelRegExp.group # "none",
          base    |-> IF labelRegExp.group = "base"
                      THEN (IF Len(label) >= 2 THEN label[2] ELSE "")
                      ELSE Undefined]
    ELSE [matched |-> FALSE, groups |-> FALSE, base |-> Undefined]

\* labelRegExp.test(label)
test(labelRegExp, label) == exec(labelRegExp, label).matched

\* JavaScript falsiness of a string or undefined
Falsy(v) == v = Undefined \/ v = ""

getBaseBranchFromLabel(label, labelRegExp) ==
    LET result == exec(labelRegExp, label)
    IN  IF ~result.matched \/ ~result.groups
        THEN [kind |-> "return", value |-> Undefined]
        ELSE IF Falsy(result.base)
        THEN [kind |-> "throw", value |-> ConfigurationError]
        ELSE [kind |-> "return", value |-> result.base]

\* compact left out: every mapped value is kept, undefined included
compactKeepsAll(s) == s

\* compact that also drops the values already seen
compactUnique(s) ==
    LET kept == { i \in 1..Len(s) : ~Falsy(s[i]) /\ \A j \in 1..(i - 1) : s[j] # s[i] }
        pick[i \in 0..Len(s)] ==
            IF i = 0 THEN <<>>
            ELSE IF i \in kept THEN Append(pick[i - 1], s[i]) ELSE pick[i - 1]
    IN  pick[Len(s)]

\* lodash compact: the truthy elements, in order
compact(s) == SelectSeq(s, LAMBDA v : ~Falsy(v))

\* getBaseBranches that tests every label of the pull request for either event
getBaseBranchesAllLabels(labelRegExp, pl) ==
    LET mapped == [i \in 1..Len(pl.labels) |->
                      getBaseBranchFromLabel(pl.labels[i], labelRegExp)]
    IN  IF \E i \in 1..Len(mapped) : mapped[i].kind = "throw"
        THEN [kind |-> "throw", value |-> <<>>]
        ELSE [kind |-> "return",
              value |-> compact([i \in 1..Len(mapped) |-> mapped[i].value])]

getBaseBranches(labelRegExp, pl) ==
    IF pl.action = "labeled"
    THEN LET r == getBaseBranchFromLabel(pl.label, labelRegExp)
         IN  IF r.kind = "throw" THEN [kind |-> "throw", value |-> <<>>]
             ELSE [kind |-> "return",
                   value |-> IF ~Falsy(r.value) THEN <<r.value>> ELSE <<>>]
    ELSE LET mapped == [i \in 1..Len(pl.labels) |->
                           getBaseBranchFromLabel(pl.labels[i], labelRegExp)]
         IN  IF \E i \in 1..Len(mapped) : mapped[i].kind = "throw"
             THEN [kind |-> "throw", value |-> <<>>]
             ELSE [kind |-> "return",
                   value |-> compact([i \in 1..Len(mapped) |-> mapped[i].value])]

----------------------------------------------------------------------------
(* Stripping the test plan; a body is a sequence of characters *)

startDelimiter == << "<", "!", "-", "-" >>

endDelimiter == << "-", "-", ">" >>

\* the characters of the bodies that are enumerated: those of the delimiters
Chars == { "<", "!", "-", ">" }

\* every body of at most n characters
Bodies(n) == UNION { [1..k -> Chars] : k \in 0..n }

\* the body "before<!--plan-->middle<!--/plan-->after"
ExampleBody ==
    << "b", "e", "f", "o", "r", "e", "<", "!", "-", "-", "p", "l",
       "a", "n", "-", "-", ">", "m", "i", "d", "d", "l", "e", "<",
       "!", "-", "-", "/", "p", "l", "a", "n", "-", "-", ">", "a",
       "f", "t", "e", "r" >>

\* String.prototype.indexOf(searchString, position), indices from 0
indexOf(string, searchString, position) ==
    LET found == { i \in position..(Len(string) - Len(searchString)) :
                     \A j \in 1..Len(searchString) : string[i + j] = searchString[j] }
    IN  IF found = {} THEN -1
        ELSE CHOOSE i \in found : \A k \in found : i <= k

\* String.prototype.lastIndexOf(searchString), indices from 0
lastIndexOf(string, searchString) ==
    LET found == { i \in 0..(Len(string) - Len(searchString)) :
                     \A j \in 1..Len(searchString) : string[i + j] = searchString[j] }
    IN  IF found = {} THEN -1
        ELSE CHOOSE i \in found : \A k \in found : i >= k

\* String.prototype.slice(start, end), indices from 0
slice(string, start, end) == SubSeq(string, start + 1, end)

\* stripTestPlanFromPRBody that looks for the end delimiter from the start
\* delimiter's first character on
stripFromStartIndex(body) ==
    LET startIndex == indexOf(body, startDelimiter, 0)
    IN  IF startIndex = -1 THEN body
        ELSE LET endIndex == indexOf(body, endDelimiter, startIndex)
             IN  IF endIndex = -1 THEN body
                 ELSE slice(body, 0, startIndex)
                        \o slice(body, endIndex + Len(endDelimiter), Len(body))

\* stripTestPlanFromPRBody that strips through the last end delimiter
stripThroughLastEnd(body) ==
    LET startIndex == indexOf(body, startDelimiter, 0)
    IN  IF startIndex = -1 THEN body
        ELSE LET endIndex == lastIndexOf(body, endDelimiter)
             IN  IF endIndex < startIndex + Len(startDelimiter) THEN body
                 ELSE slice(body, 0, startIndex)
                        \o slice(body, endIndex + Len(endDelimiter), Len(body))

stripTestPlanFromPRBody(body) ==
    LET startIndex == indexOf(body, startDelimiter, 0)
    IN  IF startIndex = -1 THEN body
        ELSE LET endIndex == indexOf(body, endDelimiter, startIndex + Len(startDelimiter))
             IN  IF endIndex = -1 THEN body
                 ELSE slice(body, 0, startIndex)
                        \o slice(body, endIndex + Len(endDelimiter), Len(body))

\* the body handed to the body template: originalBody stripped, or "" when
\* originalBody is null or empty (both are the empty sequence here)
StrippedBody(originalBody) ==
    IF originalBody # <<>> THEN stripTestPlanFromPRBody(originalBody) ELSE <<>>

----------------------------------------------------------------------------
(* Inputs of a run *)

\* a label_pattern input that new RegExp rejects
InvalidRegExp == [prefix |-> "(", whole |-> TRUE, group |-> "syntax error"]

Inputs ==
    [ templates     : {"ok", "invalid", "throws"},
      label_pattern : LabelRegExps \cup {InvalidRegExp},
      github_token  : {"", "token"} ]

\* the payload of a pull_request event; label is <<>> when the payload has
\* no "label" key, merge_commit_sha is "" when it is null or empty
PullRequestPayloads ==
    LET shapes == [ pull_request     : {TRUE},
                    action           : {"closed", "labeled", "opened"},
                    label            : LabelNames \cup { <<>> },
                    labels           : DistinctSeqs(LabelNames, MaxLabels),
                    merged           : BOOLEAN,
                    merge_commit_sha : {"", "abc123"},
                    number           : {42},
                    body             : {ExampleBody} ]
    IN  { pl \in shapes :
            IF pl.action = "labeled"
            THEN pl.label \in Range(pl.labels)
            ELSE pl.label = <<>> }

\* the payload of an event that is no pull_request event
OtherPayload ==
    [ pull_request |-> FALSE, action |-> "created", label |-> <<>>,
      labels |-> <<>>, merged |-> FALSE, merge_commit_sha |-> "", number |-> 0,
      body |-> <<>> ]

NoOutput == [set |-> FALSE, value |-> <<>>]

Init ==
    /\ inputs \in Inputs
    /\ payload \in PullRequestPayloads \cup {OtherPayload}
    /\ pc = "run"
    /\ baseBranches = <<>>
    /\ idx = 0
    /\ target = NoTarget
    /\ number = 0
    /\ error = ""
    /\ createdPullRequestBaseBranchToNumber = <<>>
    /\ workingCopy = [cloned |-> FALSE, branch |-> "", cherryPickInProgress |-> FALSE]
    /\ warned = FALSE
    /\ calls = <<>>
    /\ outcome = [status |-> "running", created_pull_requests |-> NoOutput, message |-> ""]

----------------------------------------------------------------------------
(* Helpers of the actions *)

\* one command or request: what was issued, while processing which target (0
\* before the loop) and base, on which pull request, with which labels and
\* comment body, and whether it succeeded
Call(op, base, ok, n, labels, body) ==
    [op |-> op, target |-> idx, base |-> base, ok |-> ok, number |-> n,
     labels |-> labels, body |-> body]

\* a catch of run that also outputs the map built so far
setFailedWithPartialOutput(message) ==
    /\ outcome' = [status |-> "failed",
                   created_pull_requests |->
                       [set |-> TRUE, value |-> createdPullRequestBaseBranchToNumber],
                   message |-> message]
    /\ pc' = "done"

\* an error leaves backport and reaches the catch of run: setFailed(error)
setFailed(message) ==
    /\ outcome' = [status |-> "failed", created_pull_requests |-> NoOutput,
                   message |-> message]
    /\ pc' = "done"

\* backport returns map: setOutput("created_pull_requests", map)
setOutput(map) ==
    /\ outcome' = [status |-> "succeeded",
                   created_pull_requests |-> [set |-> TRUE, value |-> map],
                   message |-> ""]
    /\ pc' = "done"

\* the value of a property key that is a canonical array index ("7" is, "5.3"
\* is not), -1 for any other key
ArrayIndex(key) == IF key = "7" THEN 7 ELSE -1

\* map[base] = n on an object, the map being listed in the order in which its
\* keys are enumerated: an old key keeps its place, a new key that is an array
\* index goes after the smaller array indices and before every other key, any
\* other new key goes last
SetKey(map, base, n) ==
    IF \E i \in 1..Len(map) : map[i].base = base
    THEN [i \in 1..Len(map) |->
            IF map[i].base = base THEN [base |-> base, number |-> n] ELSE map[i]]
    ELSE IF ArrayIndex(base) >= 0
    THEN LET before == SelectSeq(map, LAMBDA e :
                           ArrayIndex(e.base) >= 0 /\ ArrayIndex(e.base) < ArrayIndex(base))
             after  == SelectSeq(map, LAMBDA e :
                           ~(ArrayIndex(e.base) >= 0 /\ ArrayIndex(e.base) < ArrayIndex(base)))
         IN  before \o <<[base |-> base, number |-> n]>> \o after
    ELSE Append(map, [base |-> base, number |-> n])

\* the head_template input, "backport-<number>-to-<base>"
getHead(base, n) == "backport-" \o ToString(n) \o "-to-" \o base

\* BackportLabels without the filter: every label of the source pull request
\* is carried over
BackportLabelsUnfiltered(base) ==
    payload.labels \o << <<"backports">>, <<"backported-to-" \o base>> >>

\* the labels of the backport pull request
BackportLabels(base) ==
    SelectSeq(payload.labels, LAMBDA label : ~test(inputs.label_pattern, label))
        \o << <<"backports">>, <<"backported-to-" \o base>> >>

\* the body of the failure comment: the values interpolated into it
getFailedBackportCommentBody(base, commitSha, errorMessage, head) ==
    <<base, commitSha, errorMessage, head>>

\* the number the hosting service gives the next created pull request
NextNumber ==
    payload.number
      + Cardinality({ i \in 1..Len(calls) : calls[i].op = "POST pulls" /\ calls[i].ok }) + 1

----------------------------------------------------------------------------
(* run, up to the call of backport *)

\* run: compile the templates and the pattern, read the token, check the event
Run ==
    /\ pc = "run"
    /\ IF inputs.templates = "invalid"
       THEN setFailed("template syntax error")
       ELSE IF inputs.label_pattern = InvalidRegExp
       THEN setFailed("Invalid regular expression")
       ELSE IF inputs.github_token = ""
       THEN setFailed("Input required and not supplied: github_token")
       ELSE IF ~payload.pull_request
       THEN setFailed("Unsupported event action")
       ELSE IF payload.action # "closed" /\ payload.action # "labeled"
       THEN setFailed("Unsupported pull request event action")
       ELSE pc' = "validate" /\ UNCHANGED outcome
    /\ UNCHANGED <<inputs, payload, baseBranches, idx, target, number, error,
                   createdPullRequestBaseBranchToNumber, workingCopy, warned, calls>>

----------------------------------------------------------------------------
(* backport *)

\* Validate that checks the merged flag only
ValidateMergedOnly ==
    /\ pc = "validate"
    /\ IF payload.merged # TRUE
       THEN setFailed(SecurityError)
       ELSE pc' = "route" /\ UNCHANGED outcome
    /\ UNCHANGED <<inputs, payload, baseBranches, idx, target, number, error,
                   createdPullRequestBaseBranchToNumber, workingCopy, warned, calls>>

\* the pull request must be merged and have a merge commit
Validate ==
    /\ pc = "validate"
    /\ IF payload.merged # TRUE \/ Falsy(payload.merge_commit_sha)
       THEN setFailed(SecurityError)
       ELSE pc' = "route" /\ UNCHANGED outcome
    /\ UNCHANGED <<inputs, payload, baseBranches, idx, target, number, error,
                   createdPullRequestBaseBranchToNumber, workingCopy, warned, calls>>

\* Route without the early return on an empty list
RouteNoEarlyReturn ==
    /\ pc = "route"
    /\ LET routed == getBaseBranches(inputs.label_pattern, payload)
       IN  IF routed.kind = "throw"
           THEN setFailed(ConfigurationError) /\ UNCHANGED baseBranches
           ELSE /\ baseBranches' = routed.value
                /\ pc' = "warn"
                /\ UNCHANGED outcome
    /\ UNCHANGED <<inputs, payload, idx, target, number, error,
                   createdPullRequestBaseBranchToNumber, workingCopy, warned, calls>>

\* route the labels; no base branch: "No backports required."
Route ==
    /\ pc = "route"
    /\ LET routed == getBaseBranches(inputs.label_pattern, payload)
       IN  IF routed.kind = "throw"
           THEN setFailed(ConfigurationError) /\ UNCHANGED baseBranches
           ELSE /\ baseBranches' = routed.value
                /\ IF Len(routed.value) = 0
                   THEN setOutput(<<>>)
                   ELSE pc' = "warn" /\ UNCHANGED outcome
    /\ UNCHANGED <<inputs, payload, idx, target, number, error,
                   createdPullRequestBaseBranchToNumber, workingCopy, warned, calls>>

\* GET /repos/{owner}/{repo}, and the warning when merge commits or rebase
\* merging are allowed
warnIfSquashIsNotTheOnlyAllowedMergeMethod ==
    /\ pc = "warn"
    /\ \E ok \in BOOLEAN, allow_merge_commit \in BOOLEAN, allow_rebase_merge \in BOOLEAN :
         /\ calls' = Append(calls, Call("GET repo", "", ok, 0, <<>>, <<>>))
         /\ IF ok
            THEN /\ warned' = (allow_merge_commit \/ allow_rebase_merge)
                 /\ pc' = "clone"
                 /\ UNCHANGED outcome
            ELSE /\ setFailed("GET repo")
                 /\ UNCHANGED warned
    /\ UNCHANGED <<inputs, payload, baseBranches, idx, target, number, error,
                   createdPullRequestBaseBranchToNumber, workingCopy>>

\* SetupCommand that ignores the command's exit code
SetupCommandUnchecked(at, op, next) ==
    /\ pc = at
    /\ \E ok \in BOOLEAN :
         /\ calls' = Append(calls, Call(op, "", ok, 0, <<>>, <<>>))
         /\ pc' = next
         /\ workingCopy' = [workingCopy EXCEPT !.cloned = ok]
         /\ UNCHANGED outcome
    /\ UNCHANGED <<inputs, payload, baseBranches, idx, target, number, error,
                   createdPullRequestBaseBranchToNumber, warned>>

\* a git command run before the loop: its failure leaves backport
SetupCommand(at, op, next) ==
    /\ pc = at
    /\ \E ok \in BOOLEAN :
         /\ calls' = Append(calls, Call(op, "", ok, 0, <<>>, <<>>))
         /\ IF ok
            THEN /\ pc' = next
                 /\ workingCopy' = [workingCopy EXCEPT !.cloned = TRUE]
                 /\ UNCHANGED outcome
            ELSE /\ setFailed(op)
                 /\ UNCHANGED workingCopy
    /\ UNCHANGED <<inputs, payload, baseBranches, idx, target, number, error,
                   createdPullRequestBaseBranchToNumber, warned>>

Clone == SetupCommand("clone", "git clone", "configEmail")

ConfigEmail == SetupCommand("configEmail", "git config user.email", "configName")

ConfigName == SetupCommand("configName", "git config user.name", "loop")

\* NextTarget with the clone inside the loop: every target clones again
NextTargetCloning ==
    /\ pc = "loop"
    /\ idx < Len(baseBranches)
    /\ idx' = idx + 1
    /\ target' = [base   |-> baseBranches[idx + 1],
                  head   |-> getHead(baseBranches[idx + 1], payload.number),
                  labels |-> BackportLabels(baseBranches[idx + 1]),
                  body   |-> StrippedBody(payload.body)]
    /\ calls' = Append(calls, Call("git clone", "", TRUE, 0, <<>>, <<>>))
    /\ pc' = "switch"
    /\ UNCHANGED <<inputs, payload, baseBranches, number, error,
                   createdPullRequestBaseBranchToNumber, workingCopy, warned, outcome>>

\* the head of the loop body: the target's body, head, labels and title
NextTarget ==
    /\ pc = "loop"
    /\ idx < Len(baseBranches)
    /\ IF inputs.templates = "throws"
       THEN setFailed("template threw") /\ UNCHANGED <<idx, target>>
       ELSE LET base == baseBranches[idx + 1]
            IN  /\ idx' = idx + 1
                /\ target' = [base   |-> base,
                              head   |-> getHead(base, payload.number),
                              labels |-> BackportLabels(base),
                              body   |-> StrippedBody(payload.body)]
                /\ pc' = "switch"
                /\ UNCHANGED outcome
    /\ UNCHANGED <<inputs, payload, baseBranches, number, error,
                   createdPullRequestBaseBranchToNumber, workingCopy, warned, calls>>

\* the loop is over: backport returns the map and run outputs it
Return ==
    /\ pc = "loop"
    /\ idx = Len(baseBranches)
    /\ setOutput(createdPullRequestBaseBranchToNumber)
    /\ UNCHANGED <<inputs, payload, baseBranches, idx, target, number, error,
                   createdPullRequestBaseBranchToNumber, workingCopy, warned, calls>>

----------------------------------------------------------------------------
(* backportOnce, inside the try of the loop body *)

\* a catch that logs the error and goes on to the next target
CaughtSilently(op) ==
    /\ error' = op
    /\ pc' = "loop"

\* a failed step of backportOnce: the error reaches the catch of the loop body
Caught(op) ==
    /\ error' = op
    /\ pc' = "comment"

\* git switch <base>
Switch ==
    /\ pc = "switch"
    /\ \E ok \in BOOLEAN :
         /\ calls' = Append(calls, Call("git switch", target.base, ok, 0, <<>>, <<>>))
         /\ IF ok
            THEN /\ pc' = "create"
                 /\ workingCopy' = [workingCopy EXCEPT !.branch = target.base]
                 /\ UNCHANGED error
            ELSE Caught("git switch") /\ UNCHANGED workingCopy
    /\ UNCHANGED <<inputs, payload, baseBranches, idx, target, number,
                   createdPullRequestBaseBranchToNumber, warned, outcome>>

\* git switch --create <head>
SwitchCreate ==
    /\ pc = "create"
    /\ \E ok \in BOOLEAN :
         /\ calls' = Append(calls, Call("git switch --create", target.base, ok, 0, <<>>, <<>>))
         /\ IF ok
            THEN /\ pc' = "cherryPick"
                 /\ workingCopy' = [workingCopy EXCEPT !.branch = target.head]
                 /\ UNCHANGED error
            ELSE Caught("git switch --create") /\ UNCHANGED workingCopy
    /\ UNCHANGED <<inputs, payload, baseBranches, idx, target, number,
                   createdPullRequestBaseBranchToNumber, warned, outcome>>

\* CherryPick without the inner catch: its failure goes to the catch of the
\* loop body with the cherry-pick left in progress
CherryPickNoAbort ==
    /\ pc = "cherryPick"
    /\ \E ok \in BOOLEAN :
         /\ calls' = Append(calls, Call("git cherry-pick", target.base, ok, 0, <<>>, <<>>))
         /\ IF ok
            THEN /\ pc' = "push"
                 /\ UNCHANGED <<workingCopy, error>>
            ELSE /\ Caught("git cherry-pick")
                 /\ workingCopy' = [workingCopy EXCEPT !.cherryPickInProgress = TRUE]
    /\ UNCHANGED <<inputs, payload, baseBranches, idx, target, number,
                   createdPullRequestBaseBranchToNumber, warned, outcome>>

\* git cherry-pick -x <commitSha>; its failure is caught inside backportOnce
CherryPick ==
    /\ pc = "cherryPick"
    /\ \E ok \in BOOLEAN :
         /\ calls' = Append(calls, Call("git cherry-pick", target.base, ok, 0, <<>>, <<>>))
         /\ IF ok
            THEN /\ pc' = "push"
                 /\ UNCHANGED <<workingCopy, error>>
            ELSE /\ pc' = "abort"
                 /\ error' = "git cherry-pick"
                 /\ workingCopy' = [workingCopy EXCEPT !.cherryPickInProgress = TRUE]
    /\ UNCHANGED <<inputs, payload, baseBranches, idx, target, number,
                   createdPullRequestBaseBranchToNumber, warned, outcome>>

\* git cherry-pick --abort, then the cherry-pick's error is thrown again; when
\* the abort fails its own error is thrown instead
CherryPickAbort ==
    /\ pc = "abort"
    /\ \E ok \in BOOLEAN :
         /\ calls' = Append(calls, Call("git cherry-pick --abort", target.base, ok, 0, <<>>, <<>>))
         /\ IF ok
            THEN /\ workingCopy' = [workingCopy EXCEPT !.cherryPickInProgress = FALSE]
                 /\ Caught(error)
            ELSE /\ Caught("git cherry-pick --abort")
                 /\ UNCHANGED workingCopy
    /\ UNCHANGED <<inputs, payload, baseBranches, idx, target, number,
                   createdPullRequestBaseBranchToNumber, warned, outcome>>

\* Push whose exit code is not looked at: the pull request is created even
\* when the push failed
PushUnchecked ==
    /\ pc = "push"
    /\ \E ok \in BOOLEAN :
         /\ calls' = Append(calls, Call("git push", target.base, ok, 0, <<>>, <<>>))
         /\ pc' = "createPull"
         /\ UNCHANGED error
    /\ UNCHANGED <<inputs, payload, baseBranches, idx, target, number,
                   createdPullRequestBaseBranchToNumber, workingCopy, warned, outcome>>

\* git push --set-upstream origin <head>
Push ==
    /\ pc = "push"
    /\ \E ok \in BOOLEAN :
         /\ calls' = Append(calls, Call("git push", target.base, ok, 0, <<>>, <<>>))
         /\ IF ok
            THEN pc' = "createPull" /\ UNCHANGED error
            ELSE Caught("git push")
    /\ UNCHANGED <<inputs, payload, baseBranches, idx, target, number,
                   createdPullRequestBaseBranchToNumber, workingCopy, warned, outcome>>

\* POST /repos/{owner}/{repo}/pulls
CreatePull ==
    /\ pc = "createPull"
    /\ \E ok \in BOOLEAN :
         /\ calls' = Append(calls,
                Call("POST pulls", target.base, ok, IF ok THEN NextNumber ELSE 0, <<>>, <<>>))
         /\ IF ok
            THEN /\ number' = NextNumber
                 /\ pc' = "requestReviewers"
                 /\ UNCHANGED error
            ELSE /\ Caught("POST pulls")
                 /\ UNCHANGED number
    /\ UNCHANGED <<inputs, payload, baseBranches, idx, target,
                   createdPullRequestBaseBranchToNumber, workingCopy, warned, outcome>>

\* POST /repos/{owner}/{repo}/pulls/{pull_number}/requested_reviewers
RequestReviewers ==
    /\ pc = "requestReviewers"
    /\ \E ok \in BOOLEAN :
         /\ calls' = Append(calls,
                Call("POST requested_reviewers", target.base, ok, number, <<>>, <<>>))
         /\ IF ok
            THEN pc' = "applyLabels" /\ UNCHANGED error
            ELSE Caught("POST requested_reviewers")
    /\ UNCHANGED <<inputs, payload, baseBranches, idx, target, number,
                   createdPullRequestBaseBranchToNumber, workingCopy, warned, outcome>>

\* backportOnce returned: the number is written into the result map
Record ==
    /\ createdPullRequestBaseBranchToNumber' =
          SetKey(createdPullRequestBaseBranchToNumber, target.base, number)
    /\ pc' = "loop"
    /\ UNCHANGED error

\* ApplyLabels that does not await the request: its failure is not seen
ApplyLabelsUnchecked ==
    /\ pc = "applyLabels"
    /\ \E ok \in BOOLEAN :
         /\ calls' = Append(calls,
                Call("PUT labels", target.base, ok, number, target.labels, <<>>))
         /\ Record
    /\ UNCHANGED <<inputs, payload, baseBranches, idx, target, number,
                   workingCopy, warned, outcome>>

\* PUT /repos/{owner}/{repo}/issues/{issue_number}/labels when there are
\* labels, then backportOnce returns the number
ApplyLabels ==
    /\ pc = "applyLabels"
    /\ IF Len(target.labels) > 0
       THEN \E ok \in BOOLEAN :
              /\ calls' = Append(calls,
                     Call("PUT labels", target.base, ok, number, target.labels, <<>>))
              /\ IF ok
                 THEN Record
                 ELSE /\ Caught("PUT labels")
                      /\ UNCHANGED createdPullRequestBaseBranchToNumber
       ELSE Record /\ UNCHANGED calls
    /\ UNCHANGED <<inputs, payload, baseBranches, idx, target, number,
                   workingCopy, warned, outcome>>

----------------------------------------------------------------------------
(* the catch of the loop body *)

\* Comment that posts on the pull request backportOnce created, when there
\* is one
CommentOnBackportPull ==
    /\ pc = "comment"
    /\ \E ok \in BOOLEAN :
         /\ calls' = Append(calls,
                Call("POST comments", target.base, ok,
                     IF number # 0 THEN number ELSE payload.number, <<>>,
                     getFailedBackportCommentBody(target.base, payload.merge_commit_sha,
                                                  error, target.head)))
         /\ IF ok
            THEN pc' = "failLabels" /\ UNCHANGED outcome
            ELSE setFailed("POST comments")
    /\ UNCHANGED <<inputs, payload, baseBranches, idx, target, number, error,
                   createdPullRequestBaseBranchToNumber, workingCopy, warned>>

\* POST /repos/{owner}/{repo}/issues/{issue_number}/comments on the source
\* pull request; the request is awaited outside any try
Comment ==
    /\ pc = "comment"
    /\ \E ok \in BOOLEAN :
         /\ calls' = Append(calls,
                Call("POST comments", target.base, ok, payload.number, <<>>,
                     getFailedBackportCommentBody(target.base, payload.merge_commit_sha,
                                                  error, target.head)))
         /\ IF ok
            THEN pc' = "failLabels" /\ UNCHANGED outcome
            ELSE setFailed("POST comments")
    /\ UNCHANGED <<inputs, payload, baseBranches, idx, target, number, error,
                   createdPullRequestBaseBranchToNumber, workingCopy, warned>>

\* POST /repos/{owner}/{repo}/issues/{issue_number}/labels on the source pull
\* request; the request is awaited outside any try
FailLabels ==
    /\ pc = "failLabels"
    /\ \E ok \in BOOLEAN :
         /\ calls' = Append(calls,
                Call("POST labels", target.base, ok, payload.number,
                     << <<"backports">>, <<"release-blocker">>,
                        <<"failed-backport-to-" \o target.base>> >>, <<>>))
         /\ IF ok
            THEN pc' = "loop" /\ UNCHANGED outcome
            ELSE setFailed("POST labels")
    /\ UNCHANGED <<inputs, payload, baseBranches, idx, target, number, error,
                   createdPullRequestBaseBranchToNumber, workingCopy, warned>>

----------------------------------------------------------------------------

Next ==
    \/ Run
    \/ Validate
    \/ Route
    \/ warnIfSquashIsNotTheOnlyAllowedMergeMethod
    \/ Clone
    \/ ConfigEmail
    \/ ConfigName
    \/ NextTarget
    \/ Return
    \/ Switch
    \/ SwitchCreate
    \/ CherryPick
    \/ CherryPickAbort
    \/ Push
    \/ CreatePull
    \/ RequestReviewers
    \/ ApplyLabels
    \/ Comment
    \/ FailLabels

Spec == Init /\ [][Next]_vars

----------------------------------------------------------------------------
(* Stripping alone: the body of the loop's first statement, for every body *)

\* a merged pull request with any body, about to have its body stripped
InitStrip ==
    /\ inputs = [templates |-> "ok",
                 label_pattern |-> [prefix |-> "backport", whole |-> TRUE, group |-> "base"],
                 github_token |-> "token"]
    /\ \E originalBody \in Bodies(MaxBodyLen) \cup {ExampleBody} :
         payload = [ pull_request |-> TRUE, action |-> "closed", label |-> <<>>,
                     labels |-> << <<"backport", "5.3">> >>, merged |-> TRUE,
                     merge_commit_sha |-> "abc123", number |-> 42,
                     body |-> originalBody ]
    /\ pc = "strip"
    /\ baseBranches = <<"5.3">>
    /\ idx = 0
    /\ target = NoTarget
    /\ number = 0
    /\ error = ""
    /\ createdPullRequestBaseBranchToNumber = <<>>
    /\ workingCopy = [cloned |-> TRUE, branch |-> "", cherryPickInProgress |-> FALSE]
    /\ warned = FALSE
    /\ calls = <<>>
    /\ outcome = [status |-> "running", created_pull_requests |-> NoOutput, message |-> ""]

\* the body argument of getBody is computed
StripBody ==
    /\ pc = "strip"
    /\ target' = [target EXCEPT !.body = StrippedBody(payload.body)]
    /\ pc' = "stripped"
    /\ UNCHANGED <<inputs, payload, baseBranches, idx, number, error,
                   createdPullRequestBaseBranchToNumber, workingCopy, warned, calls,
                   outcome>>

NextStrip == StripBody

SpecStrip == InitStrip /\ [][NextStrip]_vars

----------------------------------------------------------------------------
(* Properties *)

\* the pull request is not merged, or has no merge commit
Unmerged == payload.merged # TRUE \/ payload.merge_commit_sha = ""

\* run has called backport
BackportCalled == pc # "run" /\ outcome.message \notin RunErrors

\* getBaseBranches has returned a list to backport
RoutingReturned ==
    /\ BackportCalled
    /\ pc \notin {"validate", "route"}
    /\ outcome.message \notin {SecurityError, ConfigurationError}

\* the labels the router tests: the event's label, or the pull request's labels
TestedLabels == IF payload.label # <<>> THEN <<payload.label>> ELSE payload.labels

\* the pattern matches the label and the match has a non-empty base group
Captures(label) ==
    LET m == exec(inputs.label_pattern, label)
    IN  m.matched /\ m.groups /\ ~Falsy(m.base)

\* the pattern matches the label and the match has no usable base group
MatchesWithoutBase(label) ==
    LET m == exec(inputs.label_pattern, label)
    IN  m.matched /\ Falsy(m.base)

\* the number of positions of s that hold v
Count(s, v) == Cardinality({ i \in 1..Len(s) : s[i] = v })

\* C1: when the pull request is not merged or has no merge commit, backport
\* ends with the security error before routing and before any command or
\* request, whatever the labels and the pattern are.
C1_UnmergedRaisesBeforeAnything ==
    (BackportCalled /\ Unmerged) =>
        /\ calls = <<>>
        /\ baseBranches = <<>>
        /\ pc \in {"validate", "done"}
        /\ pc = "done" =>
             /\ outcome.status = "failed"
             /\ outcome.message = SecurityError
             /\ ~outcome.created_pull_requests.set

\* a merged pull request without merge commit whose labels match the pattern
\* has been refused
C1_Witness ==
    /\ pc = "done"
    /\ payload.merged = TRUE
    /\ payload.merge_commit_sha = ""
    /\ \E i \in 1..Len(payload.labels) : test(inputs.label_pattern, payload.labels[i])
    /\ outcome.message = SecurityError

\* C6 (as claimed): whenever a tested label matches the pattern and the match
\* carries no base group, the run fails with the configuration error before
\* any command or request.
C6_MatchWithoutBaseIsConfigurationError ==
    ( /\ BackportCalled
      /\ ~Unmerged
      /\ pc \notin {"validate", "route"}
      /\ \E i \in 1..Len(TestedLabels) : MatchesWithoutBase(TestedLabels[i]) )
    => /\ outcome.status = "failed"
       /\ outcome.message = ConfigurationError
       /\ calls = <<>>

\* C7: for a closed event the routed list is the captured base values of the
\* labels that match, in label order; when no label matches, routing raises
\* no error.
C7_ClosedRoutesEveryMatchInOrder ==
    (payload.label = <<>> /\ BackportCalled /\ ~Unmerged /\ pc \notin {"validate", "route"}) =>
        LET matching == SelectSeq(payload.labels, Captures)
        IN  /\ RoutingReturned =>
                baseBranches = [i \in 1..Len(matching) |->
                                   exec(inputs.label_pattern, matching[i]).base]
            /\ outcome.message = ConfigurationError =>
                \E i \in 1..Len(payload.labels) : test(inputs.label_pattern, payload.labels[i])

\* the labels "backport 5.3", "backport 7", "team/x" were routed to 5.3, 7
C7_Witness ==
    /\ payload.label = <<>>
    /\ payload.labels = << <<"backport", "5.3">>, <<"backport", "7">>, <<"team/x">> >>
    /\ RoutingReturned
    /\ baseBranches = <<"5.3", "7">>

\* C8: for a labeled event only the event's label is tested: the routed list
\* is the base captured from that label, or empty when it does not match.
C8_LabeledRoutesOnlyTheEventLabel ==
    (payload.label # <<>> /\ RoutingReturned) =>
        /\ Len(baseBranches) <= 1
        /\ baseBranches = IF Captures(payload.label)
                          THEN <<exec(inputs.label_pattern, payload.label).base>>
                          ELSE <<>>

\* a labeled event was routed to the base of its label although another
\* label of the pull request captures another base
C8_Witness ==
    /\ payload.label # <<>>
    /\ RoutingReturned
    /\ Len(baseBranches) = 1
    /\ \E i \in 1..Len(payload.labels) :
         /\ Captures(payload.labels[i])
         /\ exec(inputs.label_pattern, payload.labels[i]).base # baseBranches[1]

\* C9 (as claimed): the routed list never holds the same base branch twice.
C9_RoutedListHasNoRepeat ==
    RoutingReturned =>
        \A i, j \in 1..Len(baseBranches) : i # j => baseBranches[i] # baseBranches[j]

\* C9 (amended): the routed list holds each base once per tested label that
\* captures it, so it holds the base captured from any matching label, and
\* holds it twice when two labels capture it.
C9_RoutedOncePerCapturingLabel ==
    RoutingReturned =>
        /\ \A v \in Range(baseBranches) \cup
                    { exec(inputs.label_pattern, TestedLabels[i]).base :
                        i \in { k \in 1..Len(TestedLabels) : Captures(TestedLabels[k]) } } :
              Count(baseBranches, v) =
                  Cardinality({ i \in 1..Len(TestedLabels) :
                                  /\ Captures(TestedLabels[i])
                                  /\ exec(inputs.label_pattern, TestedLabels[i]).base = v })
        /\ Len(baseBranches) = Cardinality({ i \in 1..Len(TestedLabels) : Captures(TestedLabels[i]) })

\* two labels capturing the same base were routed to a list that holds it twice
C9_Witness ==
    /\ RoutingReturned
    /\ \E i, j \in 1..Len(baseBranches) : i # j /\ baseBranches[i] = baseBranches[j]

\* C10: when routing yields no target, the run ends with the empty result
\* map, without error and without any command or request.
C10_NoTargetsReturnsEmptyMap ==
    ( /\ BackportCalled
      /\ ~Unmerged
      /\ pc \notin {"validate", "route"}
      /\ getBaseBranches(inputs.label_pattern, payload) = [kind |-> "return", value |-> <<>>] )
    => /\ pc = "done"
       /\ calls = <<>>
       /\ outcome.status = "succeeded"
       /\ outcome.created_pull_requests = [set |-> TRUE, value |-> <<>>]

\* a merged pull request none of whose labels matches ended with the empty map
C10_Witness ==
    /\ pc = "done"
    /\ BackportCalled
    /\ ~Unmerged
    /\ Len(payload.labels) > 0
    /\ baseBranches = <<>>
    /\ outcome.status = "succeeded"
    /\ outcome.created_pull_requests.set

\* the steps of one target, the recovery requests, the calls before the loop
PerTargetOps ==
    { "git switch", "git switch --create", "git cherry-pick", "git cherry-pick --abort",
      "git push", "POST pulls", "POST requested_reviewers", "PUT labels" }

RecoveryOps == { "POST comments", "POST labels" }

SetupOps == { "GET repo", "git clone", "git config user.email", "git config user.name" }

\* a step of target k failed; a call was issued for target k; every step of
\* target k succeeded
TargetFailed(k) ==
    \E i \in 1..Len(calls) :
        calls[i].target = k /\ calls[i].op \in PerTargetOps /\ ~calls[i].ok

Attempted(k) == \E i \in 1..Len(calls) : calls[i].target = k

TargetSucceeded(k) ==
    /\ ~TargetFailed(k)
    /\ \E i \in 1..Len(calls) :
         calls[i].target = k /\ calls[i].op = "PUT labels" /\ calls[i].ok

\* the keys of a result map
Keys(map) == { map[i].base : i \in 1..Len(map) }

\* C2 (as claimed): when the run is over and a step of target k failed, every
\* later target was attempted, and every later target whose steps all
\* succeeded is in the returned result map.
C2_LaterTargetsStillAttempted ==
    pc = "done" =>
        \A k \in 1..Len(baseBranches) :
            TargetFailed(k) =>
                \A j \in (k + 1)..Len(baseBranches) :
                    /\ Attempted(j)
                    /\ TargetSucceeded(j) =>
                         /\ outcome.created_pull_requests.set
                         /\ baseBranches[j] \in Keys(outcome.created_pull_requests.value)

\* C3 (as claimed): when the recovery comment or the recovery label request
\* failed, the run still ends with the result map of the successful targets,
\* after attempting every target.
C3_RecoveryFailureSwallowed ==
    (pc = "done" /\ \E i \in 1..Len(calls) : calls[i].op \in RecoveryOps /\ ~calls[i].ok) =>
        /\ outcome.status = "succeeded"
        /\ outcome.created_pull_requests.set
        /\ \A j \in 1..Len(baseBranches) : Attempted(j)

\* C4: the keys of a returned result map are routed base branches, and every
\* routed base branch that is not a key had the failure comment posted and
\* the failure labels added on the source pull request.
C4_MissingBaseHasFailureArtifacts ==
    outcome.created_pull_requests.set =>
        /\ Keys(outcome.created_pull_requests.value) \subseteq Range(baseBranches)
        /\ \A b \in Range(baseBranches) \ Keys(outcome.created_pull_requests.value) :
             /\ \E i \in 1..Len(calls) :
                  /\ calls[i].op = "POST comments"
                  /\ calls[i].ok
                  /\ calls[i].number = payload.number
                  /\ calls[i].body[1] = b
             /\ \E i \in 1..Len(calls) :
                  /\ calls[i].op = "POST labels"
                  /\ calls[i].ok
                  /\ calls[i].number = payload.number
                  /\ calls[i].labels = << <<"backports">>, <<"release-blocker">>,
                                          <<"failed-backport-to-" \o b>> >>

\* a result map was returned that holds one routed base and misses another
C4_Witness ==
    /\ outcome.created_pull_requests.set
    /\ Keys(outcome.created_pull_requests.value) # {}
    /\ Range(baseBranches) \ Keys(outcome.created_pull_requests.value) # {}

PublishOps == { "POST requested_reviewers", "PUT labels" }

\* call i is a failed publish step on a pull request that was created
FailedAfterCreation(i) ==
    /\ calls[i].op \in PublishOps
    /\ ~calls[i].ok
    /\ \E c \in 1..(i - 1) :
         /\ calls[c].op = "POST pulls"
         /\ calls[c].ok
         /\ calls[c].target = calls[i].target
         /\ calls[c].number = calls[i].number

\* C11: when a publish step fails after the backport pull request was
\* created, no later request touches that pull request (it is not rolled
\* back), its number is not written into the result map, and the next
\* requests are the failure comment and, once it is posted, the failure
\* labels on the source pull request.
C11_FailedPublishKeepsPullAndRecovers ==
    \A i \in 1..Len(calls) :
        FailedAfterCreation(i) =>
            /\ \A j \in (i + 1)..Len(calls) : calls[j].number # calls[i].number
            /\ \A m \in 1..Len(createdPullRequestBaseBranchToNumber) :
                 createdPullRequestBaseBranchToNumber[m].number # calls[i].number
            /\ IF i = Len(calls)
               THEN pc = "comment"
               ELSE /\ calls[i + 1].op = "POST comments"
                    /\ calls[i + 1].target = calls[i].target
                    /\ calls[i + 1].number = payload.number
                    /\ calls[i + 1].body[1] = calls[i].base
                    /\ calls[i + 1].ok =>
                         IF i + 1 = Len(calls)
                         THEN pc = "failLabels"
                         ELSE /\ calls[i + 2].op = "POST labels"
                              /\ calls[i + 2].number = payload.number
                              /\ calls[i + 2].labels[3] =
                                     <<"failed-backport-to-" \o calls[i].base>>

\* the labels of a created backport pull request could not be applied, the
\* failure comment and labels were posted, and the run went on
C11_Witness ==
    /\ pc = "loop"
    /\ Len(calls) >= 3
    /\ FailedAfterCreation(Len(calls) - 2)
    /\ calls[Len(calls) - 2].op = "PUT labels"
    /\ calls[Len(calls)].op = "POST labels"
    /\ calls[Len(calls)].ok


\* call i is the failed step whose error reaches the catch of the loop body:
\* any failed step but a cherry-pick, or a failed cherry-pick whose abort
\* succeeded (the error of a failed abort replaces the cherry-pick's)
LastFailedStep(i) ==
    /\ calls[i].op \in PerTargetOps
    /\ ~calls[i].ok
    /\ \/ calls[i].op # "git cherry-pick"
       \/ /\ i < Len(calls)
          /\ calls[i + 1].op = "git cherry-pick --abort"
          /\ calls[i + 1].ok

\* the call at which the recovery of the failure at call i starts: after the
\* successful abort of a failed cherry-pick, else right after the failure
RecoveryStart(i) == IF calls[i].op = "git cherry-pick" THEN i + 2 ELSE i + 1

\* the numbers of the backport pull requests created so far
CreatedNumbers ==
    { calls[i].number : i \in { c \in 1..Len(calls) : calls[c].op = "POST pulls" /\ calls[c].ok } }

\* C12: on a failure of a target the failure comment is posted on the source
\* pull request, under its own number and never under the number of a
\* backport pull request, and names the target's base, the merge commit and
\* the message of the error that was caught; once it is posted the labels
\* backports, release-blocker and failed-backport-to-<base> are added to
\* that same pull request.
C12_RecoveryGoesToTheSourcePull ==
    \A i \in 1..Len(calls) :
        LastFailedStep(i) =>
            LET r == RecoveryStart(i)
            IN  IF r > Len(calls)
                THEN pc = "comment"
                ELSE /\ calls[r].op = "POST comments"
                     /\ calls[r].number = payload.number
                     /\ calls[r].number \notin CreatedNumbers
                     /\ calls[r].body[1] = baseBranches[calls[i].target]
                     /\ calls[r].body[2] = payload.merge_commit_sha
                     /\ calls[r].body[3] = calls[i].op
                     /\ calls[r].ok =>
                          IF r = Len(calls)
                          THEN pc = "failLabels"
                          ELSE /\ calls[r + 1].op = "POST labels"
                               /\ calls[r + 1].number = payload.number
                               /\ calls[r + 1].labels =
                                    << <<"backports">>, <<"release-blocker">>,
                                       <<"failed-backport-to-"
                                           \o baseBranches[calls[i].target]>> >>

\* a backport pull request was created, its reviewers could not be requested,
\* and the comment and the labels were posted on the source pull request
C12_Witness ==
    /\ Len(calls) >= 3
    /\ calls[Len(calls) - 2].op = "POST requested_reviewers"
    /\ ~calls[Len(calls) - 2].ok
    /\ calls[Len(calls) - 1].op = "POST comments"
    /\ calls[Len(calls) - 1].ok
    /\ calls[Len(calls) - 1].number = payload.number
    /\ calls[Len(calls)].op = "POST labels"
    /\ calls[Len(calls)].ok
    /\ CreatedNumbers # {}


\* C13 (as claimed): whatever the outcome of the repository-settings query,
\* the next thing the run does is clone the repository.
C13_SettingsQueryNeverBlocks ==
    \A i \in 1..Len(calls) :
        calls[i].op = "GET repo" =>
            IF i = Len(calls) THEN pc = "clone" ELSE calls[i + 1].op = "git clone"

\* C14: created_pull_requests is output only when backport returned, and is
\* then the map it returned; once an error left backport the run is failed
\* with that error's message and nothing is output, also when pull requests
\* were already created for earlier targets.
C14_FatalErrorSurfacesNoResult ==
    /\ outcome.created_pull_requests.set =>
         /\ outcome.status = "succeeded"
         /\ pc = "done"
         /\ outcome.created_pull_requests.value = createdPullRequestBaseBranchToNumber
         /\ idx = Len(baseBranches)
    /\ outcome.status = "failed" =>
         /\ pc = "done"
         /\ outcome.created_pull_requests = NoOutput
         /\ outcome.message # ""
         /\ calls # <<>> =>
              \/ outcome.message = calls[Len(calls)].op /\ ~calls[Len(calls)].ok
              \/ outcome.message = "template threw"
    /\ (pc = "done" /\ BackportCalled /\ outcome.status # "succeeded") =>
         outcome.status = "failed"

\* a run failed after a backport pull request was created and recorded for an
\* earlier target, and output nothing
C14_Witness ==
    /\ outcome.status = "failed"
    /\ createdPullRequestBaseBranchToNumber # <<>>
    /\ CreatedNumbers # {}
    /\ ~outcome.created_pull_requests.set


\* the bases of the targets 1..k all of whose steps succeeded, each listed
\* once, in the order in which the targets were processed
RECURSIVE SucceededInOrder(_)
SucceededInOrder(k) ==
    IF k = 0 THEN <<>>
    ELSE LET earlier == SucceededInOrder(k - 1)
         IN  IF TargetSucceeded(k) /\ baseBranches[k] \notin Range(earlier)
             THEN Append(earlier, baseBranches[k])
             ELSE earlier

\* C15 (as claimed): the keys of the returned map, as enumerated, are the
\* base branches of the successful targets in the order in which the targets
\* were processed.
C15_KeysInProcessingOrder ==
    outcome.created_pull_requests.set =>
        [i \in 1..Len(outcome.created_pull_requests.value) |->
            outcome.created_pull_requests.value[i].base]
          = SucceededInOrder(Len(baseBranches))

----------------------------------------------------------------------------
(* Stripping the test plan *)

\* the delimiter occurs in body with its first character at position i (from 1)
OccursAt(body, delimiter, i) ==
    /\ i >= 1
    /\ i + Len(delimiter) - 1 <= Len(body)
    /\ \A j \in 1..Len(delimiter) : body[i + j - 1] = delimiter[j]

\* the positions of the start delimiters of body
Starts(body) == { i \in 1..Len(body) : OccursAt(body, startDelimiter, i) }

\* the positions of the end delimiters of body that begin after the start
\* delimiter at position s
EndsAfter(body, s) ==
    { i \in (s + Len(startDelimiter))..Len(body) : OccursAt(body, endDelimiter, i) }

Least(S) == CHOOSE i \in S : \A k \in S : i <= k

\* result is body without its positions from..to, every other character kept
\* in place and in order
IsBodyWithout(result, body, from, to) ==
    /\ Len(result) = Len(body) - (to - from + 1)
    /\ \A i \in 1..(from - 1) : result[i] = body[i]
    /\ \A i \in (to + 1)..Len(body) : result[i - (to - from + 1)] = body[i]

\* C16: stripping removes exactly the text from the first "<!--" through the
\* first "-->" that follows it, both delimiters included, and keeps every
\* other character; a body with no "<!--", or with no "-->" after the first
\* "<!--", comes back unchanged.
C16_StripsFirstCommentOnly ==
    pc = "stripped" =>
        LET body   == payload.body
            result == target.body
        IN  IF Starts(body) = {} THEN result = body
            ELSE LET s == Least(Starts(body))
                 IN  IF EndsAfter(body, s) = {} THEN result = body
                     ELSE LET e == Least(EndsAfter(body, s))
                          IN  IsBodyWithout(result, body, s, e + Len(endDelimiter) - 1)

\* a body with text next to a comment was stripped of the comment alone
C16_Witness ==
    /\ pc = "stripped"
    /\ Starts(payload.body) # {}
    /\ target.body # payload.body
    /\ target.body # <<>>

\* the body "beforeafter"
BeforeAfter ==
    << "b", "e", "f", "o", "r", "e", "a", "f", "t", "e", "r" >>

\* the body "beforemiddle<!--/plan-->after"
BeforeMiddleAfter ==
    << "b", "e", "f", "o", "r", "e", "m", "i", "d", "d", "l", "e",
       "<", "!", "-", "-", "/", "p", "l", "a", "n", "-", "-", ">",
       "a", "f", "t", "e", "r" >>

\* C17 (as claimed): the body "before<!--plan-->middle<!--/plan-->after" is
\* stripped to "beforeafter" before it is passed to the body template.
C17_ExampleStrippedToBeforeAfter ==
    (idx >= 1 /\ payload.body = ExampleBody) => target.body = BeforeAfter

\* C17 (amended): the body "before<!--plan-->middle<!--/plan-->after" is
\* stripped of its first comment "<!--plan-->" alone, so the body passed to the
\* body template is "beforemiddle<!--/plan-->after".
C17_ExampleStrippedOfFirstComment ==
    (idx >= 1 /\ payload.body = ExampleBody) => target.body = BeforeMiddleAfter

\* a target of a pull request with the example body reached the pull request
\* creation, with the stripped body in hand
C17_Witness ==
    /\ payload.body = ExampleBody
    /\ \E i \in 1..Len(calls) : calls[i].op = "POST pulls"
    /\ target.body # ExampleBody

----------------------------------------------------------------------------
(* The abort of a failed cherry-pick *)

\* call i is a failed cherry-pick
FailedCherryPick(i) == calls[i].op = "git cherry-pick" /\ ~calls[i].ok

\* the abort is the very next command after a failed cherry-pick, for the
\* same target, and is issued at no other time
AbortFollowsFailedCherryPick ==
    /\ \A i \in 1..Len(calls) :
         FailedCherryPick(i) =>
            IF i = Len(calls)
            THEN pc = "abort"
            ELSE /\ calls[i + 1].op = "git cherry-pick --abort"
                 /\ calls[i + 1].target = calls[i].target
    /\ \A j \in 1..Len(calls) :
         calls[j].op = "git cherry-pick --abort" => j > 1 /\ FailedCherryPick(j - 1)

\* C18 (as claimed): the abort is issued right after a failed cherry-pick,
\* before the failure reaches the catch of the loop body, and so whenever no
\* abort is pending the working tree has no cherry-pick in progress.
C18_WorkingTreeCleanAfterAnyFailedTarget ==
    /\ AbortFollowsFailedCherryPick
    /\ workingCopy.cherryPickInProgress => pc = "abort"

\* C18 (amended): the abort is issued right after a failed cherry-pick, before
\* the failure comment and before any command of the next target; the
\* working tree is left with a cherry-pick in progress only when an abort
\* itself failed.
C18_AbortIssuedAndCleanUnlessAbortFailed ==
    /\ AbortFollowsFailedCherryPick
    /\ (workingCopy.cherryPickInProgress /\ pc # "abort") =>
          \E j \in 1..Len(calls) :
              calls[j].op = "git cherry-pick --abort" /\ ~calls[j].ok

\* a cherry-pick failed, its abort succeeded, and the next target's switch was
\* issued on a working tree with no cherry-pick in progress
C18_Witness ==
    /\ ~workingCopy.cherryPickInProgress
    /\ \E i \in 1..(Len(calls) - 1) :
         /\ FailedCherryPick(i)
         /\ calls[i + 1].op = "git cherry-pick --abort"
         /\ calls[i + 1].ok
         /\ calls[Len(calls)].op = "git switch"
         /\ calls[Len(calls)].target = calls[i].target + 1

----------------------------------------------------------------------------
(* The order of the steps of a target, and of the targets *)

\* the steps of backportOnce, in the order of the code
StepOrder ==
    << "git switch", "git switch --create", "git cherry-pick", "git push",
       "POST pulls", "POST requested_reviewers", "PUT labels" >>

\* the steps issued for target k, in the order in which they were issued
StepsOf(k) ==
    SelectSeq(calls, LAMBDA c : c.target = k /\ c.op \in Range(StepOrder))

\* C19: the steps issued for a target are a prefix of switch, create branch,
\* cherry-pick, push, create pull request, request reviewers, apply labels,
\* each issued once and only after every earlier one succeeded; a number is
\* in the result map under a base only when the last step, the labels of
\* that pull request for that base, succeeded.
C19_StepsInOrderEachAfterSuccess ==
    /\ \A k \in 1..Len(baseBranches) :
         LET steps == StepsOf(k)
         IN  /\ Len(steps) <= Len(StepOrder)
             /\ \A j \in 1..Len(steps) :
                  /\ steps[j].op = StepOrder[j]
                  /\ j < Len(steps) => steps[j].ok
    /\ \A m \in 1..Len(createdPullRequestBaseBranchToNumber) :
         \E i \in 1..Len(calls) :
             /\ calls[i].op = "PUT labels"
             /\ calls[i].ok
             /\ calls[i].base = createdPullRequestBaseBranchToNumber[m].base
             /\ calls[i].number = createdPullRequestBaseBranchToNumber[m].number

\* one target went through all seven steps and is in the map, and a later
\* target stopped at a failed push
C19_Witness ==
    \E k \in 1..Len(baseBranches), l \in 1..Len(baseBranches) :
        /\ k < l
        /\ Len(StepsOf(k)) = Len(StepOrder)
        /\ StepsOf(k)[Len(StepOrder)].ok
        /\ baseBranches[k] \in Keys(createdPullRequestBaseBranchToNumber)
        /\ Len(StepsOf(l)) = 4
        /\ ~StepsOf(l)[4].ok
        /\ pc = "loop"

\* the positions of the clone in the log, and of the calls of the targets
Clones == { i \in 1..Len(calls) : calls[i].op = "git clone" }

TargetCalls == { i \in 1..Len(calls) : calls[i].target >= 1 }

\* C20: there is never more than one clone, and once a call of a target was
\* issued there is exactly one, which succeeded before every call of every
\* target; the calls of the targets come target after target, and the first
\* call of the next target, its switch, comes only after the last step of
\* the target before succeeded or after its failure comment and failure
\* labels were posted.
C20_ClonedOnceTargetsOneAtATime ==
    /\ Cardinality(Clones) <= 1
    /\ TargetCalls # {} =>
          \E c \in Clones : calls[c].ok /\ \A i \in TargetCalls : c < i
    /\ \A i \in 1..(Len(calls) - 1) :
         /\ calls[i].target <= calls[i + 1].target
         /\ (calls[i].target >= 1 /\ calls[i + 1].target # calls[i].target) =>
               /\ calls[i + 1].target = calls[i].target + 1
               /\ calls[i + 1].op = "git switch"
               /\ calls[i].ok
               /\ \/ calls[i].op = "PUT labels"
                  \/ /\ calls[i].op = "POST labels"
                     /\ calls[i - 1].op = "POST comments"
                     /\ calls[i - 1].target = calls[i].target

\* a target failed, its failure comment and labels were posted, and only
\* then the next target was switched to, in a run that cloned once
C20_Witness ==
    /\ Cardinality(Clones) = 1
    /\ Len(calls) >= 2
    /\ calls[Len(calls)].op = "git switch"
    /\ calls[Len(calls)].target = 2
    /\ calls[Len(calls) - 1].op = "POST labels"
    /\ calls[Len(calls) - 1].target = 1

----------------------------------------------------------------------------
(* The labels of a backport pull request *)

\* the position of a label among the labels of the source pull request
PositionOf(label) ==
    CHOOSE i \in 1..Len(payload.labels) : payload.labels[i] = label

\* the labels of call i but the last two are the labels of the source pull
\* request that the pattern does not match, each once, in their order
CarriesTheUnmatchedLabels(i) ==
    LET applied == calls[i].labels
        carried == Len(applied) - 2
    IN  /\ \A j \in 1..carried :
             /\ applied[j] \in Range(payload.labels)
             /\ ~test(inputs.label_pattern, applied[j])
        /\ \A j, k \in 1..carried :
             j < k => PositionOf(applied[j]) < PositionOf(applied[k])
        /\ \A label \in Range(payload.labels) :
             ~test(inputs.label_pattern, label) =>
                 \E j \in 1..carried : applied[j] = label

\* the last two labels of call i are the labels generated for its target
EndsWithTheGeneratedLabels(i) ==
    LET applied == calls[i].labels
    IN  /\ Len(applied) >= 2
        /\ applied[Len(applied) - 1] = <<"backports">>
        /\ applied[Len(applied)] = <<"backported-to-" \o calls[i].base>>

\* the positions in the log of the label requests on backport pull requests
LabelCalls == { i \in 1..Len(calls) : calls[i].op = "PUT labels" }

\* C21 (as claimed): the labels applied to a backport pull request are the
\* labels of the source pull request that the pattern does not match,
\* followed by "backports" and "backported-to-<base>"; none of the applied
\* labels matches the pattern; the request is made with at least one label.
C21_NoAppliedLabelMatchesThePattern ==
    \A i \in LabelCalls :
        /\ EndsWithTheGeneratedLabels(i)
        /\ CarriesTheUnmatchedLabels(i)
        /\ \A j \in 1..Len(calls[i].labels) :
             ~test(inputs.label_pattern, calls[i].labels[j])
        /\ Len(calls[i].labels) > 0

\* C21 (amended): the labels applied to a backport pull request are the
\* labels of the source pull request that the pattern does not match,
\* followed by "backports" and "backported-to-<base>"; no label of the
\* source pull request that matches the pattern is applied, while the two
\* generated labels are applied whether the pattern matches them or not; the
\* request is made with at least these two labels, and it is made for every
\* pull request whose reviewers were requested.
C21_AppliedLabelsAreUnmatchedThenGenerated ==
    /\ \A i \in LabelCalls :
         /\ EndsWithTheGeneratedLabels(i)
         /\ CarriesTheUnmatchedLabels(i)
         /\ \A label \in Range(payload.labels) :
              test(inputs.label_pattern, label) =>
                  \A j \in 1..(Len(calls[i].labels) - 2) : calls[i].labels[j] # label
    /\ \A i \in 1..Len(calls) :
         (calls[i].op = "POST requested_reviewers" /\ calls[i].ok) =>
            IF i = Len(calls)
            THEN pc = "applyLabels"
            ELSE calls[i + 1].op = "PUT labels" /\ calls[i + 1].number = calls[i].number

\* a backport pull request received a label carried over from a source pull
\* request that also had a matching label, followed by the generated labels,
\* the second of which the pattern matches
C21_Witness ==
    \E i \in LabelCalls :
        /\ calls[i].ok
        /\ Len(calls[i].labels) = 3
        /\ calls[i].labels[1] = <<"team/x">>
        /\ Len(payload.labels) >= 2
        /\ test(inputs.label_pattern, calls[i].labels[3])

----------------------------------------------------------------------------
(* Success and failure per base branch *)

\* a failure comment, or the failure label, was posted for the base on the
\* source pull request
FailurePostedFor(base) ==
    \E i \in 1..Len(calls) :
        /\ calls[i].ok
        /\ calls[i].number = payload.number
        /\ \/ calls[i].op = "POST comments" /\ calls[i].body[1] = base
           \/ /\ calls[i].op = "POST labels"
              /\ <<"failed-backport-to-" \o base>> \in Range(calls[i].labels)

\* C22 (as claimed): a base branch that is a key of the returned result map
\* has had no failure comment and no "failed-backport-to-<base>" label posted
\* for it on the source pull request, whatever the routed list is, repeated
\* base branches included.
C22_ReturnedBaseHasNoFailureArtifact ==
    outcome.created_pull_requests.set =>
        \A base \in Keys(outcome.created_pull_requests.value) :
            ~FailurePostedFor(base)

====
